---------------------------- MODULE Spec2Model ----------------------------
(***************************************************************************)
(* Model of pylablib.thread.script_thread.ScriptThread: the task lifecycle *)
(* (executing / interrupt_reason / stop_request, start and stop            *)
(* interrupts, check_stop, _start_script) and the multicast monitor        *)
(* registry (_monitored_signals, _on_monitor_signal, wait / pop / reset).  *)
(*                                                                         *)
(* The hosting controller (controller.QTaskThread: the event loop, the     *)
(* command scheduler behind self.ca, check_messages, wait_until, teardown) *)
(* is not part of script_thread.py; the definitions that stand for it are  *)
(* marked "host" below.                                                    *)
(***************************************************************************)
EXTENDS Naturals, Sequences, FiniteSets, TLC

\* ------------------------------------------------------------- bounds
\* Longest queue of cross-thread events (interrupts, queued monitor signals)
\* not yet processed by the task thread.
MaxEvents == 2
\* Most start_script commands scheduled and not yet executed.
MaxScheduled == 1
\* Most published messages held at one time (queued signals not yet
\* delivered, and messages buffered in the monitors' queues).
MaxQueue == 2
\* Number of bus subscriptions the thread makes in one behaviour.
MaxSubs == 2

Mons == {"m1", "m2"}
Msgs == {1, 2}
Reasons == {"done", "stopped", "failed", "shutdown"}

VARIABLES
    executing,          \* self.executing
    interrupt_reason,   \* self.interrupt_reason
    stop_request,       \* self.stop_request
    monitored_signals,  \* self._monitored_signals: name -> MonitoredSignal
    subscriptions,      \* host: live bus subscriptions made by add_signal_monitor
    next_uid,           \* host: next subscription handle the bus hands out
    events,             \* host: cross-thread events queued for the task thread
    scheduled,          \* host: start_script commands scheduled through self.ca
    pc,                 \* what the task thread is executing
    sub,                \* the primitive the user code is inside of, if any
    waiting,            \* mons of the wait_for_signal_monitor call in progress
    active_runs,        \* number of run_script invocations that have not returned
    icalls,             \* interrupt_reason at each interrupt_script call of this run
    checked,            \* the current run has returned from a check_stop call
    entered_with_stop,  \* stop_request was set when the current run was entered
    ret                 \* what the monitor call the script just made returned or raised

vars == <<executing, interrupt_reason, stop_request, monitored_signals,
          subscriptions, next_uid, events, scheduled, pc, sub, waiting,
          active_runs, icalls, checked, entered_with_stop, ret>>

task == <<executing, interrupt_reason, stop_request>>
monitors == <<monitored_signals, subscriptions, next_uid>>
runlog == <<active_runs, icalls, checked, entered_with_stop>>
ghost == <<active_runs, icalls, checked, entered_with_stop, ret>>
position == <<pc, sub, waiting>>

\* ------------------------------------------------------------- events
Interrupt(tag) == [tag |-> tag, mon |-> "none", msg |-> 0]
MonitorSignal(mon, msg) == [tag |-> "monitor", mon |-> mon, msg |-> msg]

IsStart(e) == e.tag = "control.start"
IsStop(e) == e.tag = "control.stop"
IsMonitor(e) == e.tag = "monitor"

RECURSIVE CountIf(_, _)
CountIf(s, tag) ==
    IF s = <<>> THEN 0
    ELSE (IF Head(s).tag = tag THEN 1 ELSE 0) + CountIf(Tail(s), tag)

RECURSIVE CountMon(_, _)
CountMon(s, mon) ==
    IF s = <<>> THEN 0
    ELSE (IF Head(s).mon = mon THEN 1 ELSE 0) + CountMon(Tail(s), mon)

\* ------------------------------------------------------------- registry
\* A name that is not a key of self._monitored_signals.
NoMonitor == [present |-> FALSE, uid |-> 0, messages |-> <<>>, paused |-> TRUE]

\* ScriptThread.MonitoredSignal.__init__
MonitoredSignal(uid) ==
    [present |-> TRUE, uid |-> uid, messages |-> <<>>, paused |-> TRUE]

\* mon in self._monitored_signals
Registered(mon) == monitored_signals[mon].present

\* ------------------------------------------------------------- results
\* What a monitor method hands back to the script: the exception it raised,
\* or the value it returned.  mon and msgs are the monitor name and the
\* messages in the returned value; blocked tells a wait that went through
\* wait_until from one that returned at once.
ResultKinds ==
    {"none", "KeyError", "TypeError", "IndexError", "return", "None",
     "message", "list", "pair"}

\* The monitor methods a script calls.
MonitorCalls ==
    {"add_signal_monitor", "remove_signal_monitor", "pause_monitoring",
     "reset_monitored_signal", "pop_monitored_signal",
     "wait_for_signal_monitor"}

NoResult ==
    [call |-> "none", kind |-> "none", mon |-> "none", msgs |-> <<>>,
     blocked |-> FALSE]

\* The method call raises exc.
Raised(call, exc) == [NoResult EXCEPT !.call = call, !.kind = exc]

\* The method call, without a return statement, ends.
Returns(call) == [NoResult EXCEPT !.call = call, !.kind = "return"]

\* return None: the explicit "nothing" of pop_monitored_signal (line 195)
\* and of check_monitors when no monitor is ready (line 176).
ReturnsNone(call, blocked) ==
    [NoResult EXCEPT !.call = call, !.kind = "None", !.blocked = blocked]

\* return messages.pop(0) (line 192)
ReturnsMessage(msg) ==
    [NoResult EXCEPT !.call = "pop_monitored_signal", !.kind = "message",
                     !.msgs = <<msg>>]

\* return [messages.pop(0) for _ in range(n)] (line 194)
ReturnsList(msgs) ==
    [NoResult EXCEPT !.call = "pop_monitored_signal", !.kind = "list",
                     !.msgs = msgs]

\* return TMulticastWaitResult(mon, messages.pop(0)) (line 171)
ReturnsPair(mon, msg, blocked) ==
    [call |-> "wait_for_signal_monitor", kind |-> "pair", mon |-> mon,
     msgs |-> <<msg>>, blocked |-> blocked]

\* ------------------------------------------------------------- host
\* The thread dispatches queued events in its top loop, inside
\* check_messages and inside wait_until.
Pumping ==
    \/ pc = "idle"
    \/ sub = "check_messages"
    \/ sub = "pump"
    \/ sub = "wait"

\* The thread accepts events from other threads until it fails or is torn
\* down.
ThreadAlive ==
    pc \in {"idle", "run_script", "interrupt_done", "interrupt_stopped"}

\* Scheduled commands are executed by the top loop only.
InTopLoop == pc = "idle" /\ sub = "none"

\* The monitor lists a script passes to wait_for_signal_monitor: one name,
\* or several names in the caller's order.
WaitLists ==
    {<<m>> : m \in Mons} \cup {p \in Mons \X Mons : p[1] # p[2]}

TypeOK ==
    /\ executing \in BOOLEAN
    /\ interrupt_reason \in Reasons
    /\ stop_request \in BOOLEAN
    /\ DOMAIN monitored_signals = Mons
    /\ \A m \in Mons :
          /\ monitored_signals[m].present \in BOOLEAN
          /\ monitored_signals[m].uid \in 0..MaxSubs
          /\ monitored_signals[m].paused \in BOOLEAN
          /\ monitored_signals[m].messages \in Seq(Msgs)
          /\ Len(monitored_signals[m].messages) <= MaxQueue
    /\ next_uid \in 1..(MaxSubs + 1)
    /\ Len(events) <= MaxEvents
    /\ scheduled \in 0..MaxScheduled
    /\ pc \in {"idle", "run_script", "interrupt_done", "interrupt_stopped",
               "error", "finalize", "terminated"}
    /\ sub \in {"none", "check_messages", "check_stop", "pump", "wait"}
    /\ waiting \in WaitLists \cup {<<>>}
    /\ (sub = "wait") = (waiting # <<>>)
    /\ active_runs \in 0..2
    /\ checked \in BOOLEAN
    /\ entered_with_stop \in BOOLEAN
    /\ ret.call \in MonitorCalls \cup {"none"}
    /\ ret.kind \in ResultKinds
    /\ ret.mon \in Mons \cup {"none"}
    /\ ret.msgs \in Seq(Msgs)
    /\ ret.blocked \in BOOLEAN

\* ScriptThread.__init__
Init ==
    /\ executing = FALSE
    /\ interrupt_reason = "shutdown"
    /\ stop_request = FALSE
    /\ monitored_signals = [m \in Mons |-> NoMonitor]
    /\ subscriptions = {}
    /\ next_uid = 1
    /\ events = <<>>
    /\ scheduled = 0
    /\ pc = "idle"
    /\ sub = "none"
    /\ waiting = <<>>
    /\ active_runs = 0
    /\ icalls = <<>>
    /\ checked = FALSE
    /\ entered_with_stop = FALSE
    /\ ret = NoResult


\* ------------------------------------------------------------- other threads
\* start_execution(): send_interrupt("control.start") from another thread.
start_execution ==
    /\ ThreadAlive
    /\ Len(events) < MaxEvents
    /\ CountIf(events, "control.start") + scheduled < MaxScheduled
    /\ events' = Append(events, Interrupt("control.start"))
    /\ UNCHANGED <<task, monitors, scheduled, pc, sub, waiting, ghost>>

\* stop_execution(): send_interrupt("control.stop") from another thread.
stop_execution ==
    /\ ThreadAlive
    /\ Len(events) < MaxEvents
    /\ events' = Append(events, Interrupt("control.stop"))
    /\ UNCHANGED <<task, monitors, scheduled, pc, sub, waiting, ghost>>

\* ------------------------------------------------------------- interrupts
\* process_interrupt, tag "control.start": schedule the start_script command
\* through the asynchronous accessor; request a stop if a script is executing.
ControlStartInline ==
    /\ executing' = TRUE
    /\ stop_request' = FALSE
    /\ interrupt_reason' = "done"
    /\ pc' = "run_script"
    /\ sub' = "none"
    /\ waiting' = <<>>
    /\ active_runs' = active_runs + 1
    /\ icalls' = <<>>
    /\ checked' = FALSE
    /\ entered_with_stop' = stop_request
    /\ ret' = NoResult
    /\ UNCHANGED scheduled

\* The same, without the stop request for the script that is executing.
ControlStartNoStop ==
    /\ scheduled' = scheduled + 1
    /\ UNCHANGED <<executing, interrupt_reason, stop_request, pc, sub, waiting,
                   ghost>>

\* A start that is dropped while a script is executing: it only requests
\* the stop.
ControlStartDropsWhenExecuting ==
    /\ scheduled' = (IF executing THEN scheduled ELSE scheduled + 1)
    /\ stop_request' = (IF executing THEN TRUE ELSE stop_request)
    /\ UNCHANGED <<executing, interrupt_reason, pc, sub, waiting, ghost>>

ControlStart ==
    /\ scheduled' = scheduled + 1
    /\ stop_request' = (IF executing THEN TRUE ELSE stop_request)
    /\ UNCHANGED <<executing, interrupt_reason, pc, sub, waiting, ghost>>

\* A stop that acts at once on the executing script instead of leaving it to
\* check_stop.
ControlStopImmediate ==
    /\ stop_request' = TRUE
    /\ interrupt_reason' = (IF executing THEN "stopped" ELSE interrupt_reason)
    /\ UNCHANGED <<executing, scheduled, pc, sub, waiting, ghost>>

\* A stop that is recorded only while a script is executing.
ControlStopWhenExecuting ==
    /\ stop_request' = (IF executing THEN TRUE ELSE stop_request)
    /\ UNCHANGED <<executing, interrupt_reason, scheduled, pc, sub, waiting,
                   ghost>>

\* process_interrupt, tag "control.stop".
ControlStop ==
    /\ stop_request' = TRUE
    /\ UNCHANGED <<executing, interrupt_reason, scheduled, pc, sub, waiting, ghost>>

\* process_interrupt(tag, value), run by the thread's pump on the next
\* queued interrupt.
process_interrupt ==
    /\ Pumping
    /\ events # <<>>
    /\ ~IsMonitor(Head(events))
    /\ events' = Tail(events)
    /\ IF IsStart(Head(events)) THEN ControlStart ELSE ControlStop
    /\ UNCHANGED monitors

\* ------------------------------------------------------------- _start_script
\* The user code positions: run_script, and interrupt_script as called from
\* line 110 (after a normal return), line 115 (stop handler) and line 77
\* (finalize_script).
InUserCode ==
    pc \in {"run_script", "interrupt_done", "interrupt_stopped", "finalize"}

\* _start_script without line 106.
start_script_keeps_request ==
    /\ InTopLoop
    /\ scheduled > 0
    /\ scheduled' = scheduled - 1
    /\ executing' = TRUE
    /\ interrupt_reason' = "done"
    /\ pc' = "run_script"
    /\ active_runs' = active_runs + 1
    /\ icalls' = <<>>
    /\ checked' = FALSE
    /\ entered_with_stop' = stop_request
    /\ ret' = NoResult
    /\ UNCHANGED <<stop_request, monitors, events, sub, waiting>>

\* _start_script up to the call of run_script (lines 105-109), executed by
\* the host's command loop for one scheduled start_script command.  No user
\* code and no pump runs between lines 105 and 109, so the three
\* assignments are one step; the rest of _start_script is the steps
\* run_script_return, interrupt_script_return, Raise and script_error.
start_script ==
    /\ InTopLoop
    /\ scheduled > 0
    /\ scheduled' = scheduled - 1
    /\ executing' = TRUE
    /\ stop_request' = FALSE
    /\ interrupt_reason' = "done"
    /\ pc' = "run_script"
    /\ active_runs' = active_runs + 1
    /\ icalls' = <<>>
    /\ checked' = FALSE
    /\ entered_with_stop' = stop_request
    /\ ret' = NoResult
    /\ UNCHANGED <<monitors, events, sub, waiting>>

\* The try / except of _start_script without line 115: the stop handler
\* does not call interrupt_script.
RaiseNoHandlerCall(exc) ==
    /\ sub' = "none"
    /\ waiting' = <<>>
    /\ checked' = FALSE
    /\ entered_with_stop' = FALSE
    /\ ret' = NoResult
    /\ active_runs' = (IF pc = "run_script" THEN active_runs - 1 ELSE active_runs)
    /\ IF pc \in {"run_script", "interrupt_done"}
       THEN IF exc = "stop"
            THEN /\ interrupt_reason' = "stopped"
                 /\ pc' = "interrupt_stopped"
                 /\ UNCHANGED icalls
            ELSE /\ interrupt_reason' = "failed"
                 /\ pc' = "error"
                 /\ UNCHANGED icalls
       ELSE /\ pc' = (IF pc = "finalize" THEN "terminated" ELSE "error")
            /\ UNCHANGED <<interrupt_reason, icalls>>

\* An exception leaving the user code at the current position: the try /
\* except of _start_script (lines 107-120), or the host's teardown around
\* finalize_script.  exc is "stop" (ScriptStopException) or "error".
\* Line 110 is inside the try, so a stop signal raised by the first
\* interrupt_script call is handled like one raised by run_script; an
\* exception raised in the handler's own interrupt_script call (line 115)
\* leaves _start_script with the reason and executing as they are.
Raise(exc) ==
    /\ sub' = "none"
    /\ waiting' = <<>>
    /\ checked' = FALSE
    /\ entered_with_stop' = FALSE
    /\ ret' = NoResult
    /\ active_runs' = (IF pc = "run_script" THEN active_runs - 1 ELSE active_runs)
    /\ IF pc \in {"run_script", "interrupt_done"}
       THEN IF exc = "stop"
            THEN /\ interrupt_reason' = "stopped"
                 /\ pc' = "interrupt_stopped"
                 /\ icalls' = Append(icalls, "stopped")
            ELSE /\ interrupt_reason' = "failed"
                 /\ pc' = "error"
                 /\ UNCHANGED icalls
       ELSE /\ pc' = (IF pc = "finalize" THEN "terminated" ELSE "error")
            /\ UNCHANGED <<interrupt_reason, icalls>>

\* check_stop(check_messages): the call, up to the message pump (line 91-92).
check_stop_call(check_messages) ==
    /\ InUserCode
    /\ sub = "none"
    /\ sub' = (IF check_messages THEN "check_messages" ELSE "check_stop")
    /\ ret' = NoResult
    /\ UNCHANGED <<task, monitors, events, scheduled, pc, waiting, runlog>>

\* check_stop without line 94.
check_stop_test_keeps_request ==
    /\ sub \in {"check_messages", "check_stop"}
    /\ IF stop_request
       THEN /\ Raise("stop")
            /\ UNCHANGED <<executing, stop_request>>
       ELSE /\ sub' = "none"
            /\ checked' = (IF pc = "run_script" THEN TRUE ELSE checked)
            /\ UNCHANGED <<task, pc, waiting, active_runs, icalls,
                           entered_with_stop, ret>>
    /\ UNCHANGED <<monitors, events, scheduled>>

\* check_stop, lines 93-95: the test of stop_request after the pump.
check_stop_test ==
    /\ sub \in {"check_messages", "check_stop"}
    /\ IF stop_request
       THEN /\ stop_request' = FALSE
            /\ Raise("stop")
            /\ UNCHANGED executing
       ELSE /\ sub' = "none"
            /\ checked' = (IF pc = "run_script" THEN TRUE ELSE checked)
            /\ UNCHANGED <<task, pc, waiting, active_runs, icalls,
                           entered_with_stop, ret>>
    /\ UNCHANGED <<monitors, events, scheduled>>

\* Lines 110 and 111 exchanged: the reason is reset before interrupt_script
\* is called.
run_script_return_resets_first ==
    /\ pc = "run_script"
    /\ sub = "none"
    /\ pc' = "interrupt_done"
    /\ interrupt_reason' = "shutdown"
    /\ icalls' = Append(icalls, "shutdown")
    /\ active_runs' = active_runs - 1
    /\ checked' = FALSE
    /\ entered_with_stop' = FALSE
    /\ ret' = NoResult
    /\ UNCHANGED <<executing, stop_request, monitors, events, scheduled, sub,
                   waiting>>

\* run_script returns (line 109) and interrupt_script is called (line 110).
run_script_return ==
    /\ pc = "run_script"
    /\ sub = "none"
    /\ pc' = "interrupt_done"
    /\ icalls' = Append(icalls, interrupt_reason)
    /\ active_runs' = active_runs - 1
    /\ checked' = FALSE
    /\ entered_with_stop' = FALSE
    /\ ret' = NoResult
    /\ UNCHANGED <<task, monitors, events, scheduled, sub, waiting>>

\* Lines 112 and 117 left out.
interrupt_script_return_keeps_executing ==
    /\ pc \in {"interrupt_done", "interrupt_stopped"}
    /\ sub = "none"
    /\ interrupt_reason' = "shutdown"
    /\ pc' = "idle"
    /\ icalls' = <<>>
    /\ UNCHANGED <<executing, stop_request, monitors, events, scheduled, sub,
                   waiting, active_runs, checked, entered_with_stop, ret>>

\* interrupt_script returns to _start_script (lines 111-112 or 116-117).
interrupt_script_return ==
    /\ pc \in {"interrupt_done", "interrupt_stopped"}
    /\ sub = "none"
    /\ interrupt_reason' = "shutdown"
    /\ executing' = FALSE
    /\ pc' = "idle"
    /\ icalls' = <<>>
    /\ UNCHANGED <<stop_request, monitors, events, scheduled, sub, waiting,
                   active_runs, checked, entered_with_stop, ret>>

\* The user code ends with an error other than ScriptStopException.
script_error ==
    /\ pc \in {"run_script", "interrupt_done", "interrupt_stopped"}
    /\ Raise("error")
    /\ UNCHANGED <<executing, stop_request, monitors, events, scheduled>>

\* ------------------------------------------------------------- teardown
\* host: the thread is torn down when it is stopped while idle, or after an
\* error has left _start_script.
HostTearsDown == pc \in {"idle", "error"} /\ sub = "none"

\* A finalize_script that does not call interrupt_script.
finalize_task_no_interrupt ==
    /\ HostTearsDown
    /\ pc' = "finalize"
    /\ UNCHANGED <<task, monitors, events, scheduled, sub, waiting, ghost>>

\* finalize_task -> finalize_script -> interrupt_script (lines 101-102, 77).
finalize_task ==
    /\ HostTearsDown
    /\ pc' = "finalize"
    /\ icalls' = Append(icalls, interrupt_reason)
    /\ UNCHANGED <<task, monitors, events, scheduled, sub, waiting, active_runs,
                   checked, entered_with_stop, ret>>

\* finalize_script returns; the host ends the thread.
finalize_return ==
    /\ pc = "finalize"
    /\ sub = "none"
    /\ pc' = "terminated"
    /\ UNCHANGED <<task, monitors, events, scheduled, sub, waiting, ghost>>

\* ------------------------------------------------------------- monitors
\* The user procedure calls the monitor methods from run_script.
InScript == pc = "run_script" /\ sub = "none"

\* host: MulticastPool.subscribe_nonsync returns a fresh handle and records
\* the subscription; its callback emits _monitor_signal with (mon, msg).
subscribe_nonsync(mon) ==
    /\ subscriptions' = subscriptions \cup {[uid |-> next_uid, mon |-> mon]}
    /\ next_uid' = next_uid + 1

\* add_signal_monitor without the test of lines 146-147: a registered name
\* is subscribed again and its record replaced.
add_signal_monitor_overwrites(mon) ==
    /\ InScript
    /\ next_uid <= MaxSubs
    /\ subscribe_nonsync(mon)
    /\ monitored_signals' =
           [monitored_signals EXCEPT ![mon] = MonitoredSignal(next_uid)]
    /\ ret' = Returns("add_signal_monitor")
    /\ UNCHANGED <<task, events, scheduled, position, runlog>>

\* add_signal_monitor(mon), lines 146-149.
add_signal_monitor(mon) ==
    /\ InScript
    /\ IF Registered(mon)
       THEN /\ ret' = Raised("add_signal_monitor", "KeyError")
            /\ UNCHANGED monitors
       ELSE /\ next_uid <= MaxSubs
            /\ subscribe_nonsync(mon)
            /\ monitored_signals' =
                   [monitored_signals EXCEPT ![mon] = MonitoredSignal(next_uid)]
            /\ ret' = Returns("add_signal_monitor")
    /\ UNCHANGED <<task, events, scheduled, position, runlog>>

\* remove_signal_monitor(mon), lines 152-155.  The record is popped from the
\* registry (line 154); unpacking the popped MonitoredSignal object into
\* "uid,_" raises TypeError, so line 155 (unsubscribe) is not reached.
remove_signal_monitor(mon) ==
    /\ InScript
    /\ IF ~Registered(mon)
       THEN /\ ret' = Raised("remove_signal_monitor", "KeyError")
            /\ UNCHANGED monitored_signals
       ELSE /\ monitored_signals' = [monitored_signals EXCEPT ![mon] = NoMonitor]
            /\ ret' = Raised("remove_signal_monitor", "TypeError")
    /\ UNCHANGED <<task, subscriptions, next_uid, events, scheduled, position,
                   runlog>>

\* pause_monitoring(mon, paused), line 201; start_monitoring is
\* pause_monitoring(mon, FALSE), line 204.  The registry lookup raises
\* KeyError for an unregistered name.
pause_monitoring(mon, paused) ==
    /\ InScript
    /\ IF ~Registered(mon)
       THEN /\ ret' = Raised("pause_monitoring", "KeyError")
            /\ UNCHANGED monitored_signals
       ELSE /\ monitored_signals' =
                   [monitored_signals EXCEPT ![mon].paused = paused]
            /\ ret' = Returns("pause_monitoring")
    /\ UNCHANGED <<task, subscriptions, next_uid, events, scheduled, position,
                   runlog>>

\* A reset that clears the queue of every monitor and pauses the named one.
reset_monitored_signal_all(mon) ==
    /\ InScript
    /\ IF ~Registered(mon)
       THEN /\ ret' = Raised("reset_monitored_signal", "KeyError")
            /\ UNCHANGED monitored_signals
       ELSE /\ monitored_signals' =
                   [m \in Mons |->
                       [monitored_signals[m] EXCEPT
                           !.messages = <<>>,
                           !.paused = IF m = mon THEN TRUE ELSE @]]
            /\ ret' = Returns("reset_monitored_signal")
    /\ UNCHANGED <<task, subscriptions, next_uid, events, scheduled, position,
                   runlog>>

\* reset_monitored_signal(mon), line 198.
reset_monitored_signal(mon) ==
    /\ InScript
    /\ IF ~Registered(mon)
       THEN /\ ret' = Raised("reset_monitored_signal", "KeyError")
            /\ UNCHANGED monitored_signals
       ELSE /\ monitored_signals' =
                   [monitored_signals EXCEPT ![mon].messages = <<>>]
            /\ ret' = Returns("reset_monitored_signal")
    /\ UNCHANGED <<task, subscriptions, next_uid, events, scheduled, position,
                   runlog>>

\* new_monitored_signals_number(mon), line 181.
new_monitored_signals_number(mon) == Len(monitored_signals[mon].messages)

\* messages.pop(0) repeated n times on a queue q (line 194): what is left.
\* Popping an empty list raises IndexError, with the earlier pops done.
RECURSIVE PopFront(_, _)
PopFront(q, n) ==
    IF n = 0 \/ q = <<>> THEN q ELSE PopFront(Tail(q), n - 1)

\* The messages the n pops of line 194 collect from a queue q that holds at
\* least n messages.
RECURSIVE Popped(_, _)
Popped(q, n) ==
    IF n = 0 \/ q = <<>> THEN <<>> ELSE <<Head(q)>> \o Popped(Tail(q), n - 1)

\* pop_monitored_signal(mon, n), lines 190-195; n = 0 stands for n=None
\* (one message) when one is TRUE.  With fewer than n messages buffered the
\* list comprehension of line 194 pops them all and then raises IndexError.
pop_monitored_signal(mon, one, n) ==
    /\ InScript
    /\ IF ~Registered(mon)
       THEN /\ ret' = Raised("pop_monitored_signal", "KeyError")
            /\ UNCHANGED monitored_signals
       ELSE IF new_monitored_signals_number(mon) > 0
       THEN /\ monitored_signals' =
                   [monitored_signals EXCEPT ![mon].messages =
                       IF one THEN Tail(@) ELSE PopFront(@, n)]
            /\ ret' =
                   IF one
                   THEN ReturnsMessage(Head(monitored_signals[mon].messages))
                   ELSE IF n > new_monitored_signals_number(mon)
                   THEN Raised("pop_monitored_signal", "IndexError")
                   ELSE ReturnsList(Popped(monitored_signals[mon].messages, n))
       ELSE /\ ret' = ReturnsNone("pop_monitored_signal", FALSE)
            /\ UNCHANGED monitored_signals
    /\ UNCHANGED <<task, subscriptions, next_uid, events, scheduled, position,
                   runlog>>

\* A slot that buffers the message whether or not the monitor is paused.
on_monitor_signal_ignores_paused ==
    /\ Pumping
    /\ events # <<>>
    /\ IsMonitor(Head(events))
    /\ events' = Tail(events)
    /\ LET mon == Head(events).mon
           msg == Head(events).msg
       IN  IF Registered(mon)
           THEN monitored_signals' =
                   [monitored_signals EXCEPT ![mon].messages = Append(@, msg)]
           ELSE UNCHANGED monitored_signals
    /\ UNCHANGED <<task, subscriptions, next_uid, scheduled, position, ghost>>

\* A slot that puts the message at the front of the queue.
on_monitor_signal_prepends ==
    /\ Pumping
    /\ events # <<>>
    /\ IsMonitor(Head(events))
    /\ events' = Tail(events)
    /\ LET mon == Head(events).mon
           msg == Head(events).msg
       IN  IF Registered(mon) /\ ~monitored_signals[mon].paused
           THEN monitored_signals' =
                   [monitored_signals EXCEPT ![mon].messages = <<msg>> \o @]
           ELSE UNCHANGED monitored_signals
    /\ UNCHANGED <<task, subscriptions, next_uid, scheduled, position, ghost>>

\* A slot without the try / except of lines 125-131: the KeyError of an
\* unregistered name leaves the slot and ends what the thread was running.
on_monitor_signal_raises ==
    /\ Pumping
    /\ events # <<>>
    /\ IsMonitor(Head(events))
    /\ events' = Tail(events)
    /\ LET mon == Head(events).mon
           msg == Head(events).msg
       IN  IF Registered(mon)
           THEN /\ monitored_signals' =
                       IF monitored_signals[mon].paused
                       THEN monitored_signals
                       ELSE [monitored_signals EXCEPT
                                ![mon].messages = Append(@, msg)]
                /\ UNCHANGED <<task, position, ghost>>
           ELSE /\ Raise("error")
                /\ UNCHANGED <<executing, stop_request, monitored_signals>>
    /\ UNCHANGED <<subscriptions, next_uid, scheduled>>

\* _on_monitor_signal(value), lines 124-131, run by the thread's pump on the
\* next queued monitor signal.
on_monitor_signal ==
    /\ Pumping
    /\ events # <<>>
    /\ IsMonitor(Head(events))
    /\ events' = Tail(events)
    /\ LET mon == Head(events).mon
           msg == Head(events).msg
       IN  IF Registered(mon) /\ ~monitored_signals[mon].paused
           THEN monitored_signals' =
                   [monitored_signals EXCEPT ![mon].messages = Append(@, msg)]
           ELSE UNCHANGED monitored_signals
    /\ UNCHANGED <<task, subscriptions, next_uid, scheduled, position, ghost>>

\* The messages the thread holds: queued monitor signals and buffered ones.
RECURSIVE Buffered(_)
Buffered(S) ==
    IF S = {} THEN 0
    ELSE LET m == CHOOSE x \in S : TRUE
         IN  Len(monitored_signals[m].messages) + Buffered(S \ {m})

Held == CountIf(events, "monitor") + Buffered(Mons)

RECURSIVE Emit(_, _, _)
Emit(q, e, n) == IF n = 0 THEN q ELSE Emit(Append(q, e), e, n - 1)

\* A signal connected with a direct connection: emit runs the slot inline,
\* in the publishing thread.
monitor_callback_direct(mon, msg, n) ==
    /\ monitored_signals' =
           IF Registered(mon) /\ ~monitored_signals[mon].paused
           THEN [monitored_signals EXCEPT ![mon].messages = Emit(@, msg, n)]
           ELSE monitored_signals
    /\ UNCHANGED events

\* The subscription callback of line 148, called in the publishing thread by
\* each of the n subscriptions the message matches: it emits
\* _monitor_signal with (mon, msg).  The signal is connected to
\* _on_monitor_signal with a queued connection (line 49), so emit only
\* queues the call for the task thread.
monitor_callback(mon, msg, n) ==
    /\ events' = Emit(events, MonitorSignal(mon, msg), n)
    /\ UNCHANGED monitored_signals

\* host: another thread publishes a multicast that matches the filter of the
\* subscriptions made for monitor mon; the bus calls the callback of each
\* such subscription.
publish(mon, msg) ==
    LET n == Cardinality({s \in subscriptions : s.mon = mon})
    IN  /\ ThreadAlive
        /\ n > 0
        /\ Len(events) + n <= MaxEvents
        /\ Held + n <= MaxQueue
        /\ monitor_callback(mon, msg, n)
        /\ UNCHANGED <<task, subscriptions, next_uid, scheduled, position,
                       ghost>>

\* ------------------------------------------------------------- host pump
\* host: the script calls the thread's own message pump directly
\* (processPendingInterrupts), without check_stop.
pump_call ==
    /\ InScript
    /\ sub' = "pump"
    /\ ret' = NoResult
    /\ UNCHANGED <<task, monitors, events, scheduled, pc, waiting, runlog>>

\* host: the pump returns to the script.
pump_return ==
    /\ sub = "pump"
    /\ sub' = "none"
    /\ UNCHANGED <<task, monitors, events, scheduled, pc, waiting, ghost>>

\* ------------------------------------------------------------- waiting
\* A check_monitors that looks at the monitors from the last to the first.
RECURSIVE check_monitors_reversed(_)
check_monitors_reversed(mons) ==
    IF mons = <<>> THEN "none"
    ELSE IF monitored_signals[mons[Len(mons)]].messages # <<>>
    THEN mons[Len(mons)]
    ELSE check_monitors_reversed(SubSeq(mons, 1, Len(mons) - 1))

\* check_monitors (lines 168-171): the first monitor of mons, in the
\* caller's order, whose queue is not empty; "none" if there is none.
RECURSIVE check_monitors(_)
check_monitors(mons) ==
    IF mons = <<>> THEN "none"
    ELSE IF monitored_signals[Head(mons)].messages # <<>> THEN Head(mons)
    ELSE check_monitors(Tail(mons))

\* check_monitors(pop=True) when a monitor is ready (line 171): pop its
\* oldest message and return it with the monitor's name.
PopReady(mons, blocked) ==
    LET mon == check_monitors(mons)
    IN  /\ monitored_signals' =
               [monitored_signals EXCEPT ![mon].messages = Tail(@)]
        /\ ret' = ReturnsPair(mon, Head(monitored_signals[mon].messages),
                              blocked)

\* wait_for_signal_monitor(mons, timeout), lines 163-175: KeyError for an
\* unregistered name, an immediate pop if a message is buffered, else
\* wait_until.
wait_for_signal_monitor(mons) ==
    /\ InScript
    /\ IF \E i \in 1..Len(mons) : ~Registered(mons[i])
       THEN /\ ret' = Raised("wait_for_signal_monitor", "KeyError")
            /\ UNCHANGED <<monitored_signals, sub, waiting>>
       ELSE IF check_monitors(mons) # "none"
       THEN PopReady(mons, FALSE) /\ UNCHANGED <<sub, waiting>>
       ELSE /\ sub' = "wait"
            /\ waiting' = mons
            /\ ret' = NoResult
            /\ UNCHANGED monitored_signals
    /\ UNCHANGED <<task, subscriptions, next_uid, events, scheduled, pc,
                   runlog>>

\* A wait whose pump does not look at stop_request: it stays blocked.
wait_ignores_stop ==
    /\ sub = "wait"
    /\ stop_request
    /\ check_monitors(waiting) # "none"
    /\ PopReady(waiting, TRUE)
    /\ sub' = "none"
    /\ waiting' = <<>>
    /\ UNCHANGED <<task, subscriptions, next_uid, events, scheduled, pc, runlog>>

\* host: wait_until's pump cycle finds stop_request set: the stop signal is
\* raised from inside the wait.
wait_stop ==
    /\ sub = "wait"
    /\ stop_request
    /\ stop_request' = FALSE
    /\ Raise("stop")
    /\ UNCHANGED <<executing, monitors, events, scheduled>>

\* wait_until returns TRUE; line 176 pops the message.
wait_return ==
    /\ sub = "wait"
    /\ ~stop_request
    /\ check_monitors(waiting) # "none"
    /\ PopReady(waiting, TRUE)
    /\ sub' = "none"
    /\ waiting' = <<>>
    /\ UNCHANGED <<task, subscriptions, next_uid, events, scheduled, pc, runlog>>

\* A wait_until that raises when the timeout passes.
wait_timeout_raises ==
    /\ sub = "wait"
    /\ ~stop_request
    /\ check_monitors(waiting) = "none"
    /\ Raise("error")
    /\ UNCHANGED <<executing, stop_request, monitors, events, scheduled>>

\* wait_until times out; line 176 finds no message and returns None.
wait_timeout ==
    /\ sub = "wait"
    /\ ~stop_request
    /\ check_monitors(waiting) = "none"
    /\ sub' = "none"
    /\ waiting' = <<>>
    /\ ret' = ReturnsNone("wait_for_signal_monitor", TRUE)
    /\ UNCHANGED <<task, monitors, events, scheduled, pc, runlog>>

\* ------------------------------------------------------------- specification
\* The steps of the task thread, of the threads that interrupt it and of
\* the publishers, with the script using the monitor names MS and the wait
\* lists WL.
NextOver(MS, WL) ==
    \/ start_execution
    \/ stop_execution
    \/ process_interrupt
    \/ start_script
    \/ \E cm \in BOOLEAN : check_stop_call(cm)
    \/ check_stop_test
    \/ run_script_return
    \/ interrupt_script_return
    \/ script_error
    \/ finalize_task
    \/ finalize_return
    \/ \E mon \in MS : add_signal_monitor(mon)
    \/ \E mon \in MS : remove_signal_monitor(mon)
    \/ \E mon \in MS, paused \in BOOLEAN : pause_monitoring(mon, paused)
    \/ \E mon \in MS : reset_monitored_signal(mon)
    \/ \E mon \in MS, n \in 0..MaxQueue : pop_monitored_signal(mon, n = 0, n)
    \/ on_monitor_signal
    \/ \E mon \in MS, msg \in Msgs : publish(mon, msg)
    \/ \E mons \in WL : wait_for_signal_monitor(mons)
    \/ wait_stop
    \/ wait_return
    \/ wait_timeout
    \/ pump_call
    \/ pump_return

\* The lifecycle specification: every interleaving of interrupts, runs,
\* stops, failures and teardown, with a script that uses one monitor.
Next == NextOver({"m1"}, {<<"m1">>})

Spec == Init /\ [][Next]_vars

\* The monitor specification: runs of a script that registers both monitor
\* names, starts, pauses and resets them and waits on every wait list, with
\* publishers and start interrupts.  Removal, pops, stops, failures and
\* teardown are steps of the lifecycle specification only.
MonitorNext ==
    \/ start_execution
    \/ process_interrupt
    \/ start_script
    \/ run_script_return
    \/ interrupt_script_return
    \/ \E mon \in Mons : add_signal_monitor(mon)
    \/ \E mon \in Mons, paused \in BOOLEAN : pause_monitoring(mon, paused)
    \/ \E mon \in Mons : reset_monitored_signal(mon)
    \/ on_monitor_signal
    \/ \E mon \in Mons, msg \in Msgs : publish(mon, msg)
    \/ \E mons \in WaitLists : wait_for_signal_monitor(mons)
    \/ wait_stop
    \/ wait_return
    \/ wait_timeout
    \/ pump_call
    \/ pump_return

SpecMon == Init /\ [][MonitorNext]_vars

\* The restart specification: interrupts and runs of a script that checks
\* for stops and pumps, on a thread that is not torn down and whose runs do
\* not fail.  The host's command loop executes a scheduled start_script
\* command when the thread is in its top loop.
RestartNext ==
    \/ start_execution
    \/ stop_execution
    \/ process_interrupt
    \/ start_script
    \/ \E cm \in BOOLEAN : check_stop_call(cm)
    \/ check_stop_test
    \/ run_script_return
    \/ interrupt_script_return
    \/ pump_call
    \/ pump_return

SpecRestart == Init /\ [][RestartNext]_vars /\ WF_vars(start_script)

\* ------------------------------------------------------------- properties
\* Number of interrupt_script calls of the current run made with reason r.
RECURSIVE Calls(_, _)
Calls(s, r) ==
    IF s = <<>> THEN 0
    ELSE (IF Head(s) = r THEN 1 ELSE 0) + Calls(Tail(s), r)

\* The next event the pump will dispatch is a stop / a start interrupt.
StopIsNext == events # <<>> /\ IsStop(Head(events))
StartIsNext == events # <<>> /\ IsStart(Head(events))

\* C1: in every state in which user code, the idle loop or an interrupt
\* handler can observe the task, executing is FALSE exactly when
\* interrupt_reason is "shutdown".
Inv_C1 == (executing = FALSE) <=> (interrupt_reason = "shutdown")

\* C1 witness: finalize_script runs after a failed run, with executing still
\* set and the reason "failed".
Wit_C1 == pc = "finalize" /\ executing /\ interrupt_reason = "failed"

\* C2: at most one invocation of run_script is active at any time, also when
\* start interrupts are processed inside a run.
Inv_C2 == active_runs <= 1

\* C2 witness: a start interrupt has been processed by check_stop's message
\* pump during a run (its command is scheduled, the stop request is set) and
\* the one run is still the only one.
Wit_C2 ==
    /\ pc = "run_script"
    /\ sub = "check_messages"
    /\ scheduled = 1
    /\ stop_request
    /\ active_runs = 1

\* C3: a check_stop test during a run that finds stop_request set clears it
\* and unwinds to the stop handler: interrupt_reason becomes "stopped" and
\* interrupt_script is called with executing TRUE; in the stop handler's
\* interrupt_script the reason is "stopped" and exactly one call was made
\* with it; when that call returns the task is idle with reason "shutdown",
\* executing FALSE and stop_request FALSE.
Thm_C3 ==
    [][ /\ (check_stop_test /\ pc = "run_script" /\ stop_request) =>
             /\ ~stop_request'
             /\ pc' = "interrupt_stopped"
             /\ interrupt_reason' = "stopped"
             /\ executing'
             /\ icalls' = Append(icalls, "stopped")
             /\ active_runs' = 0
        /\ (pc = "interrupt_stopped") =>
             /\ interrupt_reason = "stopped"
             /\ executing
             /\ Calls(icalls, "stopped") = 1
        /\ (interrupt_script_return /\ pc = "interrupt_stopped") =>
             /\ pc' = "idle"
             /\ interrupt_reason' = "shutdown"
             /\ ~executing'
             /\ ~stop_request'
      ]_vars

\* C3 witness: interrupt_script runs in the stop handler after check_stop
\* raised in run_script (no monitor exists, so no wait was involved).
Wit_C3 ==
    /\ pc = "interrupt_stopped"
    /\ sub = "none"
    /\ icalls = <<"stopped">>
    /\ ~stop_request
    /\ \A m \in Mons : ~Registered(m)

\* C4: when run_script returns, interrupt_script is called with reason
\* "done" and executing TRUE; during that call exactly one call has been made
\* with reason "done"; when it returns the task is idle with reason
\* "shutdown" and executing FALSE, whether or not a stop request is pending.
Thm_C4 ==
    [][ /\ run_script_return =>
             /\ pc' = "interrupt_done"
             /\ interrupt_reason' = "done"
             /\ executing'
             /\ icalls' = <<"done">>
             /\ stop_request' = stop_request
        /\ (pc = "interrupt_done") =>
             /\ interrupt_reason = "done"
             /\ executing
             /\ Calls(icalls, "done") = 1
        /\ (interrupt_script_return /\ pc = "interrupt_done") =>
             /\ pc' = "idle"
             /\ interrupt_reason' = "shutdown"
             /\ ~executing'
             /\ stop_request' = stop_request
      ]_vars

\* C4 witness: interrupt_script runs after a normal return of run_script
\* while a stop request that no check_stop consumed is still set.
Wit_C4 ==
    /\ pc = "interrupt_done"
    /\ sub = "none"
    /\ stop_request
    /\ icalls = <<"done">>

\* C5: an error in run_script sets the reason "failed", keeps executing
\* TRUE, makes no interrupt_script call and leaves _start_script; from then
\* on the only step of the thread is the host's teardown, which runs
\* finalize_script once, and its interrupt_script call sees the reason
\* "failed".
Thm_C5 ==
    [][ /\ (script_error /\ pc = "run_script") =>
             /\ interrupt_reason' = "failed"
             /\ executing' = executing
             /\ executing'
             /\ icalls' = <<>>
             /\ pc' = "error"
        /\ (pc = "error" /\ pc' # "error") =>
             /\ pc' = "finalize"
             /\ icalls' = Append(icalls, interrupt_reason)
             /\ UNCHANGED task
        /\ (pc = "finalize") => pc' \in {"finalize", "terminated"}
        /\ (pc = "finalize") => UNCHANGED <<icalls, interrupt_reason, executing>>
        /\ (pc = "terminated") => pc' = "terminated"
      ]_vars

\* C5 witness: finalize_script's interrupt_script call after an error in
\* run_script: the only interrupt_script call, made with reason "failed".
Wit_C5 ==
    /\ pc = "finalize"
    /\ icalls = <<"failed">>
    /\ interrupt_reason = "failed"
    /\ executing

\* C6: a stop interrupt processed while a run is active sets stop_request
\* and changes nothing else of the task, the monitors or the thread's
\* position; check_stop(check_messages=False) dispatches no queued event, and
\* when its test finds stop_request clear it returns to the script with the
\* queued events (a posted stop included) and the task state untouched.
Thm_C6 ==
    [][ /\ (process_interrupt /\ StopIsNext /\ pc = "run_script") =>
             /\ stop_request'
             /\ UNCHANGED <<executing, interrupt_reason, monitors, scheduled,
                            position, ghost>>
        /\ (sub = "check_stop") => ~(process_interrupt \/ on_monitor_signal)
        /\ (check_stop_test /\ sub = "check_stop" /\ pc = "run_script"
               /\ ~stop_request) =>
             /\ pc' = "run_script"
             /\ sub' = "none"
             /\ UNCHANGED <<task, monitors, events, scheduled>>
      ]_vars

\* C6 witness: check_stop(check_messages=False) has returned to the running
\* script while a stop interrupt is posted and not yet pumped, and an earlier
\* pump left a message in a monitor queue.
Wit_C6 ==
    /\ pc = "run_script"
    /\ sub = "none"
    /\ checked
    /\ ~stop_request
    /\ StopIsNext
    /\ monitored_signals["m1"].messages # <<>>

\* C7 as claimed: a run that was entered with a stop already processed
\* (stop_request set when _start_script began) does not get past its first
\* check_stop.
Orig_C7 == (pc = "run_script" /\ entered_with_stop) => ~checked

\* C7 amended: a stop interrupt processed after run_script has begun and
\* before the run's first check_stop tests stop_request stays set until that
\* test, which then stops the run with reason "stopped"; a stop processed
\* before _start_script begins the run is cleared at the start of the run,
\* and a first check_stop that finds stop_request clear does not stop it.
Thm_C7 ==
    [][ /\ (process_interrupt /\ StopIsNext /\ pc = "run_script" /\ ~checked) =>
             stop_request'
        /\ (pc = "run_script" /\ ~checked /\ stop_request
               /\ pc' = "run_script" /\ ~checked') => stop_request'
        /\ (check_stop_test /\ pc = "run_script" /\ ~checked /\ stop_request) =>
             /\ pc' = "interrupt_stopped"
             /\ interrupt_reason' = "stopped"
        /\ start_script => (~stop_request' /\ entered_with_stop' = stop_request)
        /\ (check_stop_test /\ pc = "run_script" /\ ~checked /\ ~stop_request) =>
             /\ pc' = "run_script"
             /\ interrupt_reason' = "done"
             /\ checked'
      ]_vars

\* C7 witness: the run was entered with no stop outstanding, and its first
\* check_stop has pumped a stop interrupt and is about to test stop_request.
Wit_C7 ==
    /\ pc = "run_script"
    /\ sub = "check_messages"
    /\ ~checked
    /\ ~entered_with_stop
    /\ stop_request
    /\ scheduled = 0

Thm_C9 ==
    [][ /\ (process_interrupt /\ StartIsNext) =>
             /\ scheduled' = scheduled + 1
             /\ UNCHANGED <<executing, interrupt_reason, position, active_runs>>
             /\ executing => stop_request'
             /\ pc = "idle" => stop_request' = stop_request
        /\ (pc = "run_script" /\ stop_request /\ pc' = "run_script") =>
             stop_request'
        /\ (check_stop_test /\ pc = "run_script" /\ stop_request) =>
             /\ interrupt_reason' = "stopped"
             /\ active_runs' = 0
      ]_vars

\* C9 witness: a start interrupt has been processed by the pump of a wait
\* during a run: its command is scheduled, stop_request is set, and the run
\* is the only one.
Wit_C9 ==
    /\ pc = "run_script"
    /\ sub = "wait"
    /\ scheduled = 1
    /\ stop_request
    /\ active_runs = 1

\* C10: a stop interrupt processed while the task is idle sets stop_request
\* and changes nothing else (no run begins, no interrupt_script call is
\* made); the next run starts with stop_request FALSE, and a check_stop
\* test that finds it FALSE lets the run go on.
Thm_C10 ==
    [][ /\ (process_interrupt /\ StopIsNext /\ pc = "idle") =>
             /\ stop_request'
             /\ ~executing'
             /\ interrupt_reason' = "shutdown"
             /\ UNCHANGED <<executing, interrupt_reason, monitors, scheduled,
                            position, ghost>>
        /\ start_script => (pc' = "run_script" /\ ~stop_request')
        /\ (check_stop_test /\ pc = "run_script" /\ ~stop_request) =>
             /\ pc' = "run_script"
             /\ interrupt_reason' = "done"
      ]_vars

\* C10 witness: a run that was entered after a stop had been processed in
\* the idle loop has passed a check_stop and goes on.
Wit_C10 ==
    /\ pc = "run_script"
    /\ sub = "none"
    /\ entered_with_stop
    /\ checked
    /\ ~stop_request
    /\ interrupt_reason = "done"

\* ------------------------------------------------------------- monitor claims
\* q is what is left of the queue p after messages were taken from its front.
IsSuffix(q, p) ==
    /\ Len(q) <= Len(p)
    /\ q = SubSeq(p, Len(p) - Len(q) + 1, Len(p))

\* C11: add_signal_monitor of an unregistered name creates a monitor that is
\* paused and has an empty queue; the delivery of a message to a paused
\* monitor leaves the registry as it is; and as long as a monitor stays
\* paused its queue only loses messages from the front, so a message
\* delivered while paused is never returned by a later pop or wait.
Thm_C11 ==
    [][ /\ \A mon \in Mons :
              (add_signal_monitor(mon) /\ ~Registered(mon)) =>
                  /\ monitored_signals'[mon].present
                  /\ monitored_signals'[mon].paused
                  /\ monitored_signals'[mon].messages = <<>>
        /\ (on_monitor_signal /\ Registered(Head(events).mon)
               /\ monitored_signals[Head(events).mon].paused) =>
              /\ monitored_signals' = monitored_signals
              /\ events' = Tail(events)
        /\ \A mon \in Mons :
              (Registered(mon) /\ monitored_signals[mon].paused
                  /\ monitored_signals'[mon].present
                  /\ monitored_signals'[mon].paused) =>
                  IsSuffix(monitored_signals'[mon].messages,
                           monitored_signals[mon].messages)
      ]_vars

\* C11 witness: a monitor that buffered a message and was then paused is
\* about to be handed another message by the pump the script called.
Wit_C11 ==
    /\ sub = "pump"
    /\ Registered("m1")
    /\ monitored_signals["m1"].paused
    /\ monitored_signals["m1"].messages # <<>>
    /\ events # <<>>
    /\ IsMonitor(Head(events))

\* A step of wait_for_signal_monitor that returns a message: the immediate
\* return of the call, or the return after wait_until.
WaitPops ==
    /\ \/ \E mons \in WaitLists : wait_for_signal_monitor(mons)
       \/ wait_return
    /\ ret'.kind = "pair"

\* C12: the queue of a registered monitor is first-in first-out, and
\* new_monitored_signals_number counts the messages delivered while the
\* monitor was active and not yet popped or reset: a delivery to an active
\* monitor puts the message at the end and raises the number by one; a pop
\* of one message, a pop of n buffered messages and a returning wait take
\* the oldest messages, return them in delivery order and lower the number
\* by as many; a reset brings it to zero; no other step changes the queue.
Thm_C12 ==
    [][ \A mon \in Mons :
          (Registered(mon) /\ monitored_signals'[mon].present) =>
            LET q == monitored_signals[mon].messages
                q2 == monitored_signals'[mon].messages
                k == new_monitored_signals_number(mon)
                k2 == new_monitored_signals_number(mon)'
            IN  /\ (/\ events # <<>>
                    /\ IsMonitor(Head(events))
                    /\ Head(events).mon = mon
                    /\ ~monitored_signals[mon].paused
                    /\ on_monitor_signal) =>
                      /\ q2 = Append(q, Head(events).msg)
                      /\ k2 = k + 1
                /\ (InScript /\ q # <<>>
                       /\ ret'.call = "pop_monitored_signal") =>
                      /\ pop_monitored_signal(mon, TRUE, 0) =>
                            /\ ret' = ReturnsMessage(Head(q))
                            /\ q2 = Tail(q)
                            /\ k2 = k - 1
                      /\ \A n \in 1..Len(q) :
                            pop_monitored_signal(mon, FALSE, n) =>
                                /\ ret' = ReturnsList(SubSeq(q, 1, n))
                                /\ q2 = SubSeq(q, n + 1, Len(q))
                                /\ k2 = k - n
                /\ (InScript /\ ret'.call = "reset_monitored_signal"
                       /\ reset_monitored_signal(mon)) => k2 = 0
                /\ (ret'.mon = mon /\ WaitPops) =>
                      /\ ret'.msgs = <<Head(q)>>
                      /\ q2 = Tail(q)
                      /\ k2 = k - 1
                /\ q2 # q =>
                      \/ k2 = k + 1 /\ on_monitor_signal
                      \/ /\ k2 < k
                         /\ ret'.call = "pop_monitored_signal"
                         /\ \E n \in 0..MaxQueue :
                                pop_monitored_signal(mon, n = 0, n)
                      \/ k2 = k - 1 /\ ret'.mon = mon /\ WaitPops
                      \/ /\ k2 = 0
                         /\ ret'.call = "reset_monitored_signal"
                         /\ reset_monitored_signal(mon)
      ]_vars

\* C12 witness: messages 1 and 2 were buffered in this order and one pop of
\* two messages has returned them in this order, leaving the queue empty.
Wit_C12 ==
    /\ ret = ReturnsList(<<1, 2>>)
    /\ Registered("m1")
    /\ new_monitored_signals_number("m1") = 0

\* C13: add_signal_monitor with a name that is already registered raises
\* KeyError and changes nothing: no subscription is made, no handle is
\* used up, and the registered monitor keeps its handle, its paused flag
\* and its buffered messages.
Thm_C13 ==
    [][ \A mon \in Mons :
          (add_signal_monitor(mon) /\ Registered(mon)) =>
              /\ ret' = Raised("add_signal_monitor", "KeyError")
              /\ subscriptions' = subscriptions
              /\ next_uid' = next_uid
              /\ monitored_signals' = monitored_signals
              /\ UNCHANGED <<task, events, scheduled, position>>
      ]_vars

\* C13 witness: the script has just tried to register the name of an active
\* monitor that holds a message; the call raised KeyError and the monitor
\* is still active, holds the message and has the only subscription.
Wit_C13 ==
    /\ ret = Raised("add_signal_monitor", "KeyError")
    /\ Registered("m1")
    /\ ~monitored_signals["m1"].paused
    /\ monitored_signals["m1"].messages # <<>>
    /\ subscriptions = {[uid |-> monitored_signals["m1"].uid, mon |-> "m1"]}

\* C14: remove_signal_monitor of a registered name completes without error,
\* discards the record and leaves the bus without a subscription made for
\* that monitor; for an unregistered name it raises an error and changes
\* nothing.
Orig_C14 ==
    [][ \A mon \in Mons :
          /\ (remove_signal_monitor(mon) /\ Registered(mon)) =>
                /\ ret' = Returns("remove_signal_monitor")
                /\ ~monitored_signals'[mon].present
                /\ ~\E s \in subscriptions' : s.mon = mon
          /\ (remove_signal_monitor(mon) /\ ~Registered(mon)) =>
                /\ ret' = Raised("remove_signal_monitor", "KeyError")
                /\ UNCHANGED <<monitors, task, events, scheduled, position>>
      ]_vars

\* C15: a monitor registered again after its name was removed starts empty
\* and paused, and every message published for a started monitor is handed
\* to the task thread exactly once, so that the monitor buffers it once and
\* not a second time through a leftover subscription.
Orig_C15 ==
    [][ \A mon \in Mons :
          /\ (add_signal_monitor(mon) /\ ~Registered(mon)) =>
                monitored_signals'[mon] = MonitoredSignal(next_uid)
          /\ \A msg \in Msgs :
                (publish(mon, msg) /\ Registered(mon)
                    /\ ~monitored_signals[mon].paused) =>
                    CountMon(events', mon) = CountMon(events, mon) + 1
      ]_vars

\* C16: reset_monitored_signal of a registered monitor empties that
\* monitor's queue and changes nothing else: its paused flag and its
\* subscription handle, every other monitor, the bus subscriptions, the
\* queued events and the task state stay as they are.
Thm_C16 ==
    [][ \A mon \in Mons :
          (reset_monitored_signal(mon) /\ Registered(mon)) =>
              /\ monitored_signals'[mon] =
                     [monitored_signals[mon] EXCEPT !.messages = <<>>]
              /\ \A other \in Mons \ {mon} :
                     monitored_signals'[other] = monitored_signals[other]
              /\ ret' = Returns("reset_monitored_signal")
              /\ UNCHANGED <<task, subscriptions, next_uid, events, scheduled,
                             position, runlog>>
      ]_vars

\* C16 witness: the script has just reset the active monitor m1 while the
\* other monitor holds a message: m1 is empty and still active, m2 still
\* holds its message.
Wit_C16 ==
    /\ ret = Returns("reset_monitored_signal")
    /\ Registered("m1")
    /\ ~monitored_signals["m1"].paused
    /\ monitored_signals["m1"].messages = <<>>
    /\ Registered("m2")
    /\ monitored_signals["m2"].messages # <<>>

\* The smaller of two numbers.
Min(a, b) == IF a < b THEN a ELSE b

\* C17: pop_monitored_signal on a registered monitor never raises: with k
\* messages buffered, a call with n removes and returns the oldest
\* min(n, k) messages in arrival order and leaves the other k - min(n, k)
\* in order (a call without n takes the single oldest one); with no
\* message buffered it returns the explicit empty result and changes
\* nothing.
Orig_C17 ==
    [][ \A mon \in Mons :
          Registered(mon) =>
            LET q == monitored_signals[mon].messages
                k == Len(q)
            IN  /\ (pop_monitored_signal(mon, TRUE, 0) /\ k > 0) =>
                      /\ ret' = ReturnsMessage(Head(q))
                      /\ monitored_signals'[mon].messages = Tail(q)
                /\ \A n \in 1..MaxQueue :
                      (pop_monitored_signal(mon, FALSE, n) /\ k > 0) =>
                          /\ ret' = ReturnsList(SubSeq(q, 1, Min(n, k)))
                          /\ monitored_signals'[mon].messages =
                                 SubSeq(q, Min(n, k) + 1, k)
                /\ \A n \in 0..MaxQueue :
                      (pop_monitored_signal(mon, n = 0, n) /\ k = 0) =>
                          /\ ret' = ReturnsNone("pop_monitored_signal", FALSE)
                          /\ monitored_signals' = monitored_signals
      ]_vars

\* C18: wait_for_signal_monitor over registered monitors of which at least
\* one holds a message returns in the same step, without entering the wait
\* and without dispatching a queued event: it pops the oldest message of
\* the first monitor, in the caller's order, whose queue is not empty,
\* returns that monitor's name with the message, and leaves every other
\* queue and the rest of the state unchanged.
Thm_C18 ==
    [][ \A mons \in WaitLists :
          (/\ wait_for_signal_monitor(mons)
           /\ \A i \in 1..Len(mons) : Registered(mons[i])
           /\ \E i \in 1..Len(mons) :
                  monitored_signals[mons[i]].messages # <<>>) =>
            LET i == CHOOSE i \in 1..Len(mons) :
                         /\ monitored_signals[mons[i]].messages # <<>>
                         /\ \A j \in 1..(i - 1) :
                                monitored_signals[mons[j]].messages = <<>>
                first == mons[i]
                q == monitored_signals[first].messages
            IN  /\ ret' = ReturnsPair(first, Head(q), FALSE)
                /\ monitored_signals'[first] =
                       [monitored_signals[first] EXCEPT !.messages = Tail(q)]
                /\ \A other \in Mons \ {first} :
                       monitored_signals'[other] = monitored_signals[other]
                /\ sub' = "none"
                /\ UNCHANGED <<task, subscriptions, next_uid, events,
                               scheduled, position, runlog>>
      ]_vars

\* C18 witness: a wait has returned at once with a message of m2 while m1,
\* the other monitor, still holds a buffered message.
Wit_C18 ==
    /\ ret.kind = "pair"
    /\ ~ret.blocked
    /\ ret.mon = "m2"
    /\ monitored_signals["m1"].messages # <<>>
    /\ pc = "run_script"
    /\ sub = "none"

\* C19: a wait_for_signal_monitor whose timeout passes with no message
\* buffered for its monitors returns None to the script, which goes on in
\* run_script: nothing is raised, and the queues, the queued events and the
\* task state are unchanged.
Thm_C19 ==
    [][ wait_timeout =>
          /\ ret' = ReturnsNone("wait_for_signal_monitor", TRUE)
          /\ pc' = "run_script"
          /\ sub' = "none"
          /\ interrupt_reason' = "done"
          /\ monitored_signals' = monitored_signals
          /\ UNCHANGED <<task, subscriptions, next_uid, events, scheduled,
                         runlog>>
      ]_vars

\* C19 witness: a wait on the active monitor m1 has ended in None after
\* blocking, with nothing buffered and nothing queued, and the run goes on.
Wit_C19 ==
    /\ ret = ReturnsNone("wait_for_signal_monitor", TRUE)
    /\ pc = "run_script"
    /\ sub = "none"
    /\ Registered("m1")
    /\ ~monitored_signals["m1"].paused
    /\ monitored_signals["m1"].messages = <<>>
    /\ events = <<>>

\* C20: the registry is changed only by steps of the task thread.  A
\* publish, like a start or stop request of another thread, is a step that
\* leaves the thread where it is, leaves every queue and paused flag as it
\* is and only adds queued events; a queue
\* grows only in a step of the thread's own pump that takes the message
\* from the head of the queued events; and every step that changes the
\* registry is a call made by the script, a pump delivery or the return of
\* a wait.
Thm_C20 ==
    [][ /\ (UNCHANGED <<position, ret>>
               /\ \E mon \in Mons, msg \in Msgs : publish(mon, msg)) =>
              /\ monitored_signals' = monitored_signals
              /\ Len(events') > Len(events)
              /\ UNCHANGED task
        /\ (UNCHANGED <<position, ret>>
               /\ (start_execution \/ stop_execution)) =>
              monitored_signals' = monitored_signals
        /\ \A mon \in Mons :
              (/\ Registered(mon)
               /\ monitored_signals'[mon].present
               /\ Len(monitored_signals'[mon].messages) >
                      Len(monitored_signals[mon].messages)) =>
                  /\ Pumping
                  /\ events # <<>>
                  /\ IsMonitor(Head(events))
                  /\ Head(events).mon = mon
                  /\ events' = Tail(events)
                  /\ monitored_signals'[mon].messages =
                         Append(monitored_signals[mon].messages,
                                Head(events).msg)
        /\ monitored_signals' # monitored_signals =>
              \/ InScript
              \/ Pumping /\ events # <<>> /\ events' = Tail(events)
              \/ sub = "wait" /\ sub' = "none"
      ]_vars

\* C20 witness: a message published for the active monitor m1 is queued
\* for the task thread while the script is running its own code; the
\* monitor's queue is still empty.
Wit_C20 ==
    /\ pc = "run_script"
    /\ sub = "none"
    /\ Registered("m1")
    /\ ~monitored_signals["m1"].paused
    /\ monitored_signals["m1"].messages = <<>>
    /\ events # <<>>
    /\ Head(events) = MonitorSignal("m1", 1)

\* ------------------------------------------------------------- last claims
\* C21: every start interrupt the thread processes schedules exactly one
\* start_script command, whether or not a script is executing; a scheduled
\* command is never dropped and is taken only by start_script, which begins
\* exactly one run; and, on a thread that is not torn down and whose runs
\* do not fail, once the thread is idle with a command scheduled a run
\* begins.
Thm_C21 ==
    /\ [][ /\ (process_interrupt /\ StartIsNext) =>
                /\ scheduled' = scheduled + 1
                /\ active_runs' = active_runs
           /\ scheduled' # scheduled =>
                \/ process_interrupt /\ StartIsNext
                \/ /\ start_script
                   /\ scheduled' = scheduled - 1
                   /\ active_runs' = active_runs + 1
                   /\ pc' = "run_script"
           /\ active_runs' > active_runs => start_script
         ]_vars
    /\ (pc = "idle" /\ scheduled > 0) ~> (pc = "run_script")

\* C21 witness: a run is being stopped while the command of a start
\* interrupt that was processed during that run is scheduled.
Wit_C21 ==
    /\ pc = "interrupt_stopped"
    /\ executing
    /\ interrupt_reason = "stopped"
    /\ scheduled = 1
    /\ events = <<>>

\* C22: during one invocation of _start_script, from the beginning of the
\* run to the end of its interrupt_script call, interrupt_script has been
\* called at most once.
Orig_C22 ==
    pc \in {"run_script", "interrupt_done", "interrupt_stopped"} =>
        Len(icalls) <= 1

\* C23: the delivery of a queued monitor message whose monitor name is not
\* registered takes the message from the queued events and changes nothing
\* else: no error reaches the thread, and every monitor's queue and paused
\* flag, the subscriptions and the task state stay as they are.
Thm_C23 ==
    [][ (/\ events # <<>>
         /\ IsMonitor(Head(events))
         /\ ~Registered(Head(events).mon)
         /\ on_monitor_signal) =>
            /\ events' = Tail(events)
            /\ monitored_signals' = monitored_signals
            /\ pc' = pc
            /\ UNCHANGED <<task, subscriptions, next_uid, scheduled, position,
                           ghost>>
      ]_vars

\* C23 witness: the script has just removed the monitor m1 while a message
\* published for it is the next queued event of the task thread.
Wit_C23 ==
    /\ ret = Raised("remove_signal_monitor", "TypeError")
    /\ ~Registered("m1")
    /\ events # <<>>
    /\ Head(events) = MonitorSignal("m1", 1)

=============================================================================
